---- MODULE Spec2Model ----
(***************************************************************************)
(* Model of plugins/modules/openshift_adm_migrate_template_instances.py:   *)
(* OpenShiftMigrateTemplateInstances.execute_module lists the              *)
(* TemplateInstances of a namespace (or of the whole cluster),             *)
(* perform_migrations walks every status.objects reference, rewrites the   *)
(* stale apiVersion values and patches the status subresource, and         *)
(* patch_template_instance turns a failed patch into fail_json.            *)
(*                                                                         *)
(* A Python dict is a record, a Python list a sequence.  A key that may be *)
(* missing is a boolean next to the value: status.present says whether the *)
(* instance has a 'status' key, status.hasObjects whether the status has   *)
(* an 'objects' key.  results['result'] is either the list [] or the dict  *)
(* returned by the last patch: result.type tells which, result.value       *)
(* holds the content.                                                      *)
(***************************************************************************)
EXTENDS Integers, Sequences, FiniteSets, TLC

\* ---------------------------------------------------------------- bounds
\* Longest status.objects list of an instance of the cluster.
MaxObjs == 2
\* Number of invocations of the module against the same cluster.
MaxRuns == 2

\* ------------------------------------------------------- program constants
\* The Transform Table: kind -> canonical apiVersion.
transforms ==
    [k \in {"Build", "BuildConfig", "DeploymentConfig", "Route"} |->
        CASE k = "Build"            -> "build.openshift.io/v1.Build"
          [] k = "BuildConfig"      -> "build.openshift.io/v1.BuildConfig"
          [] k = "DeploymentConfig" -> "apps.openshift.io/v1.DeploymentConfig"
          [] k = "Route"            -> "route.openshift.io/v1.Route"]

\* ------------------------------------------------------------ environment
\* The module parameter 'namespace': None (not given), or a string.
None == "<None>"
NamespaceParams == {None, "", "A"}
\* The namespaces and the TemplateInstances of the cluster.
Namespaces == {"A", "B"}
InstNames == {"ti1", "ti2"}
\* The order in which a list call returns the instances.
ListOrder == <<"ti1", "ti2">>

\* Object references an instance's status.objects is drawn from: a stale
\* in-table reference, an in-table reference already canonical, and a
\* reference of a kind the table does not have.
RefPool ==
    { [ref |-> [kind |-> "Route", apiVersion |-> "v1",
                name |-> "route", namespace |-> "test", uid |-> "u1"]],
      [ref |-> [kind |-> "Route", apiVersion |-> "route.openshift.io/v1.Route",
                name |-> "route2", namespace |-> "test", uid |-> "u2"]],
      [ref |-> [kind |-> "Secret", apiVersion |-> "v1",
                name |-> "secret", namespace |-> "test", uid |-> "u3"]] }

ObjLists == UNION { [1..n -> RefPool] : n \in 0..MaxObjs }

\* status missing, status without 'objects', status with an objects list.
Statuses ==
    { [present |-> FALSE, hasObjects |-> FALSE, objects |-> <<>>],
      [present |-> TRUE,  hasObjects |-> FALSE, objects |-> <<>>] }
    \cup { [present |-> TRUE, hasObjects |-> TRUE, objects |-> o] : o \in ObjLists }

TemplateInstance(n, ns, st) ==
    [metadata |-> [name |-> n, namespace |-> ns, resourceVersion |-> 1],
     status   |-> st]

EmptyResult == [type |-> "list", value |-> <<>>]

VARIABLES
    cluster,            \* persisted TemplateInstances, by name
    namespace,          \* module.params['namespace']
    check_mode,         \* module.check_mode
    pc,                 \* position of the invocation
    templateinstances,  \* templateinstances['items'] as listed, mutated in place
    listed,             \* the items exactly as the list call returned them
    t,                  \* index of the outer loop (for ti in items)
    i,                  \* index of the inner loop (for i, obj in enumerate)
    results,            \* the dict perform_migrations builds
    patchLog,           \* the status patch calls of this invocation
    failure,            \* how the invocation died: fail_json or a traceback
    listCalls,          \* list calls of this invocation
    run,                \* invocations started so far
    cluster0,           \* the cluster when this invocation started
    prev                \* outcome of the previous invocation

vars == <<cluster, namespace, check_mode, pc, templateinstances, listed, t, i,
          results, patchLog, failure, listCalls, run, cluster0, prev>>

\* report: "fail_json" (a failure report) or "traceback" (an exception nobody
\* caught); error: what failed; at: the call that raised; name: the
\* namespace or the instance the message names.
NoFailure == [report |-> "none", error |-> "", at |-> "", name |-> ""]
NoPrev == [pc |-> "none", patches |-> 0]

\* ------------------------------------------------------------ the cluster
\* resource.get(namespace=...) / resource.get(): the instances of one
\* namespace, or of all of them, in the cluster's list order.
RECURSIVE ListFrom(_, _, _)
ListFrom(c, ns, k) ==
    IF k > Len(ListOrder) THEN <<>>
    ELSE LET ti == c[ListOrder[k]]
         IN  IF ns = None \/ ti.metadata.namespace = ns
             THEN <<ti>> \o ListFrom(c, ns, k + 1)
             ELSE ListFrom(c, ns, k + 1)

\* resource.status.patch(body): the status subresource of the instance the
\* body names is replaced by the body's status; the server bumps the
\* resourceVersion.
PatchStatus(c, body) ==
    [c EXCEPT ![body.metadata.name] =
        [@ EXCEPT !.status = body.status,
                  !.metadata.resourceVersion = @ + 1]]

\* ---------------------------------------------------- perform_migrations
\* if namespace: ... else: ...   (None and "" are both falsy)
ListAllNamespaces(ns) == ns = None \/ ns = ""

\* Mutant: the namespace is not passed to the list call.
ListScopeIgnored(ns) == None

\* The namespace the list call is restricted to, None for resource.get().
ListScope(ns) == IF ListAllNamespaces(ns) THEN None ELSE ns

\* Mutant: the comparison with the table value is inverted.
IsStaleInverted(obj) ==
    /\ obj.ref.kind \in DOMAIN transforms
    /\ obj.ref.apiVersion = transforms[obj.ref.kind]

\* Mutant: every in-table reference is rewritten, canonical or not.
IsStaleInTable(obj) == obj.ref.kind \in DOMAIN transforms

\* object_type in transforms.keys() and obj['ref']['apiVersion'] != transforms[object_type]
IsStale(obj) ==
    /\ obj.ref.kind \in DOMAIN transforms
    /\ obj.ref.apiVersion # transforms[obj.ref.kind]

\* Mutant: the table value is written to every reference of the instance.
RewriteEvery(ti, k) ==
    [ti EXCEPT !.status.objects =
        [j \in DOMAIN @ |->
            [@[j] EXCEPT !.ref.apiVersion = transforms[ti.status.objects[k].ref.kind]]]]

\* Mutant: the reference is replaced by a new one of the kind and version.
RewriteWholeRef(ti, k) ==
    [ti EXCEPT !.status.objects[k].ref =
        [kind |-> @.kind, apiVersion |-> transforms[@.kind],
         name |-> "", namespace |-> "", uid |-> ""]]

\* Mutant: the table value is written to the first reference, not to index i.
RewriteFirst(ti, k) ==
    [ti EXCEPT !.status.objects[1].ref.apiVersion =
                    transforms[ti.status.objects[k].ref.kind]]

\* ti['status']['objects'][i]['ref']['apiVersion'] = transforms[object_type]
Rewrite(ti, k) ==
    [ti EXCEPT !.status.objects[k].ref.apiVersion =
                    transforms[ti.status.objects[k].ref.kind]]

\* Mutant: the patch is sent in check mode too.
DoPatchAlways(cm) == TRUE

\* if not self.check_mode:
DoPatch(cm) == ~cm

\* Mutant: changed is set under 'if not self.check_mode' only.
ChangedOnlyWhenPatched(cm) == ~cm

\* results['changed'] = True, after the rewrite and the patch
ChangedAfterRewrite(cm) == TRUE

\* Mutant: the patched instance is appended to the result list.
ResultAppended(old, returned) ==
    [type |-> "list", value |-> Append(old.value, returned)]

\* results['result'] = self.patch_template_instance(resource, ti)
ResultAfterPatch(old, returned) == [type |-> "dict", value |-> <<returned>>]

\* Mutant: the failed patch is swallowed and the loop goes on.
AfterPatchFailureContinue == "continue"

\* patch_template_instance: fail_json ends the invocation
AfterPatchFailure == "failed"

\* perform_migrations as a function, every patch call succeeding: st is
\* [cluster, results, crashed], the cluster and the results dict so far.
\* The inner loop over the objects of ti from index k on.
RECURSIVE MigrateObjects(_, _, _, _)
MigrateObjects(st, ti, k, cm) ==
    IF k > Len(ti.status.objects) THEN st
    ELSE IF ~IsStale(ti.status.objects[k]) THEN MigrateObjects(st, ti, k + 1, cm)
    ELSE LET body == Rewrite(ti, k)
             c2 == IF DoPatch(cm) THEN PatchStatus(st.cluster, body) ELSE st.cluster
             r2 == [changed |-> st.results.changed \/ ChangedAfterRewrite(cm),
                    result  |-> IF DoPatch(cm)
                                THEN ResultAfterPatch(st.results.result,
                                                      c2[body.metadata.name])
                                ELSE st.results.result]
         IN  MigrateObjects([st EXCEPT !.cluster = c2, !.results = r2],
                            body, k + 1, cm)

\* The outer loop over items from index k on; ti['status'] of an instance
\* without status raises KeyError and ends the loop.
RECURSIVE PerformMigrations(_, _, _, _)
PerformMigrations(st, items, k, cm) ==
    IF k > Len(items) \/ st.crashed THEN st
    ELSE IF ~items[k].status.present
         THEN [st EXCEPT !.crashed = TRUE]
         ELSE PerformMigrations(MigrateObjects(st, items[k], 1, cm),
                                items, k + 1, cm)

\* ------------------------------------------------------------------ Init
Init ==
    /\ cluster \in { [n \in InstNames |-> TemplateInstance(n, f[n][1], f[n][2])] :
                        f \in [InstNames -> Namespaces \X Statuses] }
    /\ namespace \in NamespaceParams
    /\ check_mode \in BOOLEAN
    /\ pc = "main"
    /\ templateinstances = <<>>
    /\ listed = <<>>
    /\ t = 0
    /\ i = 0
    /\ results = [changed |-> FALSE, result |-> EmptyResult]
    /\ patchLog = <<>>
    /\ failure = NoFailure
    /\ listCalls = 0
    /\ run = 0
    /\ cluster0 = cluster
    /\ prev = NoPrev

\* --------------------------------------------------------------- actions
\* A new invocation of the module with the same parameters: what main()
\* resets before the constructor runs.
StartInvocation ==
    /\ pc \in {"main", "exited", "failed", "crashed"}
    /\ run < MaxRuns
    /\ run' = run + 1
    /\ prev' = IF run = 0 THEN NoPrev
               ELSE [pc |-> pc, patches |-> Len(patchLog)]
    /\ cluster0' = cluster
    /\ templateinstances' = <<>>
    /\ listed' = <<>>
    /\ t' = 0
    /\ i' = 0
    /\ results' = [changed |-> FALSE, result |-> EmptyResult]
    /\ patchLog' = <<>>
    /\ listCalls' = 0
    /\ UNCHANGED <<cluster, namespace, check_mode>>

\* main(): the constructor succeeds (HAS_KUBERNETES_COLLECTION) and
\* execute_module is called.
Main ==
    /\ StartInvocation
    /\ pc' = "execute_module"
    /\ failure' = NoFailure

\* main(): __init__ finds HAS_KUBERNETES_COLLECTION false and calls
\* fail_json before anything else happens.
InitFails ==
    /\ StartInvocation
    /\ pc' = "failed"
    /\ failure' = [report |-> "fail_json", error |-> "DependencyMissing",
                   at |-> "init", name |-> ""]

\* execute_module: find_resource(..., fail=True) cannot resolve the
\* templateinstances resource and calls fail_json; no list call is made.
FindResourceFails ==
    /\ pc = "execute_module"
    /\ pc' = "failed"
    /\ failure' = [report |-> "fail_json", error |-> "ResourceNotFoundError",
                   at |-> "find_resource", name |-> ""]
    /\ UNCHANGED <<cluster, namespace, check_mode, templateinstances, listed,
                   t, i, results, patchLog, listCalls, run, cluster0, prev>>

\* execute_module, the resource is found and the list call succeeds:
\* perform_migrations starts.
ListOk ==
    /\ pc = "execute_module"
    /\ templateinstances' = ListFrom(cluster, ListScope(namespace), 1)
    /\ listed' = templateinstances'
    /\ t' = 1
    /\ i' = 0
    /\ pc' = "for_ti"
    /\ listCalls' = listCalls + 1
    /\ UNCHANGED <<cluster, namespace, check_mode, results, patchLog, failure,
                   run, cluster0, prev>>

\* execute_module, the resource is found and the list call raises.  With a
\* namespace both except
\* clauses call fail_json; without one nothing catches the exception.
ListFails ==
    /\ pc = "execute_module"
    /\ \E exc \in {"DynamicApiError", "Exception"} :
         IF ListAllNamespaces(namespace)
         THEN /\ pc' = "crashed"
              /\ failure' = [report |-> "traceback", error |-> exc,
                             at |-> "list", name |-> ""]
         ELSE /\ pc' = "failed"
              /\ failure' = [report |-> "fail_json", error |-> "RetrievalError",
                             at |-> "list", name |-> namespace]
    /\ listCalls' = listCalls + 1
    /\ UNCHANGED <<cluster, namespace, check_mode, templateinstances, listed,
                   t, i, results, patchLog, run, cluster0, prev>>

\* for ti in templateinstances.get('items'): objects = ti['status'].get('objects')
ForTi ==
    /\ pc = "for_ti"
    /\ IF t > Len(templateinstances)
       THEN /\ pc' = "return"
            /\ UNCHANGED <<t, i, failure>>
       ELSE LET ti == templateinstances[t]
            IN  IF ~ti.status.present
                THEN \* ti['status'] raises KeyError
                     /\ pc' = "crashed"
                     /\ failure' = [report |-> "traceback", error |-> "KeyError",
                                    at |-> "status", name |-> ti.metadata.name]
                     /\ UNCHANGED <<t, i>>
                ELSE IF ti.status.hasObjects /\ Len(ti.status.objects) > 0
                THEN /\ pc' = "for_obj"
                     /\ i' = 1
                     /\ UNCHANGED <<t, failure>>
                ELSE /\ pc' = "for_ti"
                     /\ t' = t + 1
                     /\ UNCHANGED <<i, failure>>
    /\ UNCHANGED <<cluster, namespace, check_mode, templateinstances, listed,
                   results, patchLog, listCalls, run, cluster0, prev>>

\* Where the inner loop goes after the object at index i.
AfterObj ==
    IF i < Len(templateinstances[t].status.objects)
    THEN /\ i' = i + 1
         /\ t' = t
         /\ pc' = "for_obj"
    ELSE /\ i' = 0
         /\ t' = t + 1
         /\ pc' = "for_ti"

\* One iteration of: for i, obj in enumerate(objects), the reference needs
\* no rewrite.
ForObjSkip ==
    /\ pc = "for_obj"
    /\ ~IsStale(templateinstances[t].status.objects[i])
    /\ AfterObj
    /\ UNCHANGED <<cluster, namespace, check_mode, templateinstances, listed,
                   results, patchLog, failure, listCalls, run, cluster0, prev>>

\* One iteration, the reference is stale: rewrite in place, and in check
\* mode only set changed.
ForObjCheckMode ==
    /\ pc = "for_obj"
    /\ IsStale(templateinstances[t].status.objects[i])
    /\ ~DoPatch(check_mode)
    /\ templateinstances' = [templateinstances EXCEPT ![t] = Rewrite(@, i)]
    /\ results' = [results EXCEPT !.changed = @ \/ ChangedAfterRewrite(check_mode)]
    /\ AfterObj
    /\ UNCHANGED <<cluster, namespace, check_mode, listed, patchLog, failure,
                   listCalls, run, cluster0, prev>>

\* One iteration, the reference is stale: rewrite in place, patch the
\* status with the whole instance, keep the returned body as the result.
ForObjPatchOk ==
    /\ pc = "for_obj"
    /\ IsStale(templateinstances[t].status.objects[i])
    /\ DoPatch(check_mode)
    /\ LET body == Rewrite(templateinstances[t], i)
       IN  /\ templateinstances' = [templateinstances EXCEPT ![t] = body]
           /\ cluster' = PatchStatus(cluster, body)
           /\ patchLog' = Append(patchLog,
                            [body |-> body, ok |-> TRUE,
                             stored |-> cluster[body.metadata.name]])
           /\ results' = [changed |-> results.changed \/ ChangedAfterRewrite(check_mode),
                          result  |-> ResultAfterPatch(results.result,
                                                       cluster'[body.metadata.name])]
    /\ AfterObj
    /\ UNCHANGED <<namespace, check_mode, listed, failure, listCalls, run,
                   cluster0, prev>>

\* One iteration, the reference is stale and the patch call raises:
\* patch_template_instance calls fail_json.
ForObjPatchFails ==
    /\ pc = "for_obj"
    /\ IsStale(templateinstances[t].status.objects[i])
    /\ DoPatch(check_mode)
    /\ LET body == Rewrite(templateinstances[t], i)
       IN  /\ templateinstances' = [templateinstances EXCEPT ![t] = body]
           /\ patchLog' = Append(patchLog,
                            [body |-> body, ok |-> FALSE,
                             stored |-> cluster[body.metadata.name]])
           /\ failure' = [report |-> "fail_json", error |-> "PatchError",
                          at |-> "patch", name |-> body.metadata.name]
    /\ IF AfterPatchFailure = "failed"
       THEN pc' = "failed" /\ UNCHANGED <<t, i>>
       ELSE AfterObj
    /\ UNCHANGED <<cluster, namespace, check_mode, listed, results, listCalls,
                   run, cluster0, prev>>

\* self.module.exit_json(**self.perform_migrations(...))
ExitJson ==
    /\ pc = "return"
    /\ pc' = "exited"
    /\ UNCHANGED <<cluster, namespace, check_mode, templateinstances, listed,
                   t, i, results, patchLog, failure, listCalls, run, cluster0,
                   prev>>

Next ==
    \/ Main
    \/ InitFails
    \/ FindResourceFails
    \/ ListOk
    \/ ListFails
    \/ ForTi
    \/ ForObjSkip
    \/ ForObjCheckMode
    \/ ForObjPatchOk
    \/ ForObjPatchFails
    \/ ExitJson

Spec == Init /\ [][Next]_vars

\* ================================================================ claims
\* A reference whose kind is in the Transform Table and whose apiVersion is
\* not the table's value.
StaleRef(obj) ==
    /\ obj.ref.kind \in {"Build", "BuildConfig", "DeploymentConfig", "Route"}
    /\ obj.ref.apiVersion # transforms[obj.ref.kind]

HasStaleRef(ti) ==
    \E j \in 1..Len(ti.status.objects) : StaleRef(ti.status.objects[j])

Last(s) == s[Len(s)]

\* C1: after a non-dry-run invocation that ends with exit_json, the persisted
\* status.objects of every listed instance has no in-table reference with a
\* non-canonical apiVersion.
C1_PersistedMigrated ==
    (pc = "exited" /\ ~check_mode) =>
        \A k \in 1..Len(listed) :
            ~HasStaleRef(cluster[listed[k].metadata.name])

\* A real run ended; a listed instance had two stale references.
C1_Witness ==
    /\ pc = "exited" /\ ~check_mode
    /\ \E k \in 1..Len(listed) :
           /\ Len(listed[k].status.objects) = 2
           /\ \A j \in 1..2 : StaleRef(listed[k].status.objects[j])

\* C2: in check mode no status patch call is issued, the cluster stays as
\* it was when the invocation started, and no patch error is reported.
C2_DryRunIsolation ==
    check_mode =>
        /\ patchLog = <<>>
        /\ cluster = cluster0
        /\ failure.error # "PatchError"

\* A check-mode run ended after it found a stale reference.
C2_Witness ==
    /\ check_mode /\ pc = "exited"
    /\ \E k \in 1..Len(listed) : HasStaleRef(listed[k])
    /\ \E k \in 1..Len(listed) : templateinstances[k] # listed[k]

\* C3: an invocation that ends with exit_json, in check mode or not,
\* reports changed = TRUE exactly when some listed instance had a stale
\* reference.
C3_ChangedIffStale ==
    pc = "exited" =>
        (results.changed <=> \E k \in 1..Len(listed) : HasStaleRef(listed[k]))

\* A check-mode run reported changed with one stale and one clean instance.
C3_Witness ==
    /\ pc = "exited" /\ check_mode /\ results.changed
    /\ Len(listed) = 2
    /\ \E k \in 1..2 : ~HasStaleRef(listed[k]) /\ listed[k].status.objects # <<>>

\* C4: an invocation that follows a non-dry-run invocation ended by
\* exit_json (same parameters, no other writer) lists no stale reference,
\* issues no patch call, leaves the cluster as it found it and does not
\* set changed.
C4_Idempotent ==
    (run >= 2 /\ ~check_mode /\ prev.pc = "exited") =>
        /\ \A k \in 1..Len(listed) : ~HasStaleRef(listed[k])
        /\ patchLog = <<>>
        /\ cluster = cluster0
        /\ ~results.changed

\* The second run ended after a first run that patched.
C4_Witness ==
    /\ run >= 2 /\ ~check_mode /\ prev.pc = "exited" /\ prev.patches > 0
    /\ pc = "exited" /\ listed # <<>>

\* C5: a reference that was listed with a kind outside the table, or with
\* the table's apiVersion, is the same in the in-memory instance and in
\* every patch body as it was listed.
C5_SelectiveRewrite ==
    \A k \in 1..Len(listed) :
        \A j \in 1..Len(listed[k].status.objects) :
            ~StaleRef(listed[k].status.objects[j]) =>
                /\ j \in DOMAIN templateinstances[k].status.objects
                /\ templateinstances[k].status.objects[j] = listed[k].status.objects[j]
                /\ \A p \in 1..Len(patchLog) :
                      patchLog[p].body.metadata.name = listed[k].metadata.name =>
                          /\ j \in DOMAIN patchLog[p].body.status.objects
                          /\ patchLog[p].body.status.objects[j] = listed[k].status.objects[j]

\* A patch body carries a rewritten reference next to one the table does
\* not cover.
C5_Witness ==
    \E p \in 1..Len(patchLog) : \E k \in 1..Len(listed) :
        /\ patchLog[p].body.metadata.name = listed[k].metadata.name
        /\ patchLog[p].body # listed[k]
        /\ \E j \in 1..Len(listed[k].status.objects) :
              listed[k].status.objects[j].ref.kind = "Secret"

\* The fields of a reference other than apiVersion.
Identity(obj) == <<obj.ref.kind, obj.ref.name, obj.ref.namespace, obj.ref.uid>>

SameShape(a, b) ==
    /\ Len(a.status.objects) = Len(b.status.objects)
    /\ \A j \in 1..Len(b.status.objects) :
          Identity(a.status.objects[j]) = Identity(b.status.objects[j])

\* C6: the in-memory status.objects of every instance, and of every patch
\* body, has as many entries as were listed, in the same order, each with
\* the kind, name, namespace and uid it was listed with.
C6_OrderPreserved ==
    \A k \in 1..Len(listed) :
        /\ SameShape(templateinstances[k], listed[k])
        /\ \A p \in 1..Len(patchLog) :
              patchLog[p].body.metadata.name = listed[k].metadata.name =>
                  SameShape(patchLog[p].body, listed[k])

\* A run ended after it rewrote the second of two references.
C6_Witness ==
    /\ pc = "exited"
    /\ \E k \in 1..Len(listed) :
          /\ Len(listed[k].status.objects) = 2
          /\ listed[k].status.objects[1].ref.kind = "Secret"
          /\ templateinstances[k].status.objects[2] # listed[k].status.objects[2]

\* C7: with a namespace given, only instances of that namespace are listed
\* and patched and every other instance is persisted as it was; with no
\* namespace a successful list call returns every instance of the cluster.
\* (The empty string is no namespace: 'if namespace:'.)
C7_NamespaceScoping ==
    /\ ~(namespace \in {None, ""}) =>
          /\ \A k \in 1..Len(listed) : listed[k].metadata.namespace = namespace
          /\ \A p \in 1..Len(patchLog) :
                patchLog[p].body.metadata.namespace = namespace
          /\ \A n \in InstNames :
                cluster[n].metadata.namespace # namespace => cluster[n] = cluster0[n]
    /\ (namespace \in {None, ""} /\ pc \in {"for_ti", "for_obj", "return", "exited"}) =>
          \A n \in InstNames : \E k \in 1..Len(listed) : listed[k].metadata.name = n

\* A run scoped to A patched an instance of A while a stale instance of B
\* stayed stale.
C7_Witness ==
    /\ namespace = "A" /\ pc = "exited" /\ patchLog # <<>>
    /\ \E n \in InstNames :
          cluster[n].metadata.namespace = "B" /\ HasStaleRef(cluster[n])

\* The names of the instances a run patched, each once, in patch order.
RECURSIVE PatchedNames(_)
PatchedNames(log) ==
    IF log = <<>> THEN <<>>
    ELSE LET front == PatchedNames(SubSeq(log, 1, Len(log) - 1))
             n == Last(log).body.metadata.name
         IN  IF \E k \in 1..Len(front) : front[k] = n THEN front
             ELSE Append(front, n)

\* C8: after a non-dry-run invocation that ends with exit_json, result is a
\* list with one entry for every instance patched in the run, and nothing
\* else.
C8_ResultListsMigrated ==
    (pc = "exited" /\ ~check_mode) =>
        /\ results.result.type = "list"
        /\ Len(results.result.value) = Len(PatchedNames(patchLog))
        /\ \A k \in 1..Len(results.result.value) :
              results.result.value[k].metadata.name = PatchedNames(patchLog)[k]

\* C9: a failed patch call is the last patch call of the invocation, the
\* invocation is then dead with a fail_json that names the instance of the
\* failed call, and exit_json is never reached.
C9_PatchFailFast ==
    /\ \A p \in 1..(Len(patchLog) - 1) : patchLog[p].ok
    /\ (patchLog # <<>> /\ ~Last(patchLog).ok) =>
          /\ pc = "failed"
          /\ failure = [report |-> "fail_json", error |-> "PatchError",
                         at |-> "patch", name |-> Last(patchLog).body.metadata.name]

\* A patch failed after an earlier one succeeded, with a stale instance
\* still to come.
C9_Witness ==
    /\ pc = "failed" /\ failure.error = "PatchError"
    /\ Len(patchLog) = 2 /\ patchLog[1].ok /\ ~patchLog[2].ok
    /\ t < Len(listed) /\ HasStaleRef(listed[Len(listed)])

\* C10: a failed list call ends the invocation with a RetrievalError
\* failure report, with or without a namespace; nothing is listed,
\* transformed or patched, the call is not repeated, nothing is returned.
C10_ListFailureReported ==
    failure.at = "list" =>
        /\ pc = "failed"
        /\ failure.report = "fail_json"
        /\ failure.error = "RetrievalError"
        /\ listCalls = 1
        /\ listed = <<>> /\ templateinstances = <<>>
        /\ patchLog = <<>> /\ cluster = cluster0
        /\ results = [changed |-> FALSE, result |-> EmptyResult]

\* The patch calls of the invocation that name instance n.
PatchesOf(n) == { p \in 1..Len(patchLog) : patchLog[p].body.metadata.name = n }

\* C11: at the end of a non-dry-run invocation without failure, every listed
\* instance that had a stale reference got exactly one patch call and every
\* other listed instance none.
C11_OnePatchPerInstance ==
    (pc = "exited" /\ ~check_mode) =>
        \A k \in 1..Len(listed) :
            Cardinality(PatchesOf(listed[k].metadata.name))
                = IF HasStaleRef(listed[k]) THEN 1 ELSE 0

\* C12: no patch body holds a stale reference, and the persisted
\* status.objects of every instance is at every moment the one the
\* invocation found or one without a stale reference.
C12_NeverHalfMigrated ==
    /\ \A p \in 1..Len(patchLog) : ~HasStaleRef(patchLog[p].body)
    /\ \A n \in InstNames :
          cluster[n].status = cluster0[n].status \/ ~HasStaleRef(cluster[n])

\* C13: a non-dry-run invocation that ends with exit_json after an
\* invocation that a patch failure aborted leaves no listed instance with a
\* stale reference, and patches only instances that had a stale reference
\* when it started.
C13_RecoveryByRerun ==
    (run >= 2 /\ ~check_mode /\ prev.pc = "failed" /\ prev.patches > 0
       /\ pc = "exited") =>
        /\ \A k \in 1..Len(listed) :
              ~HasStaleRef(cluster[listed[k].metadata.name])
        /\ \A p \in 1..Len(patchLog) :
              HasStaleRef(cluster0[patchLog[p].body.metadata.name])

\* The rerun patched one instance and left alone one that the aborted
\* invocation had already migrated.
C13_Witness ==
    /\ run >= 2 /\ ~check_mode /\ prev.pc = "failed" /\ prev.patches >= 2
    /\ pc = "exited" /\ patchLog # <<>>
    /\ \E k \in 1..Len(listed) :
          /\ PatchesOf(listed[k].metadata.name) = {}
          /\ listed[k].metadata.resourceVersion > 1

\* C14: at the end of a non-dry-run invocation without failure, result is
\* the list [] when no patch call was issued, and otherwise the one body the
\* server returned for the last patch call: the instance of that call with
\* the status of its body and the bumped resourceVersion.
C14_ResultIsLastPatch ==
    (pc = "exited" /\ ~check_mode) =>
        IF patchLog = <<>>
        THEN results.result = [type |-> "list", value |-> <<>>]
        ELSE /\ results.result.type = "dict"
             /\ Len(results.result.value) = 1
             /\ LET r == results.result.value[1]
                    l == Last(patchLog)
                IN  /\ r.metadata.name = l.body.metadata.name
                    /\ r.metadata.namespace = l.stored.metadata.namespace
                    /\ r.metadata.resourceVersion = l.stored.metadata.resourceVersion + 1
                    /\ r.status = l.body.status

\* A run ended after it patched both instances.
C14_Witness ==
    /\ pc = "exited" /\ ~check_mode
    /\ Len(listed) = 2
    /\ \A k \in 1..2 : PatchesOf(listed[k].metadata.name) # {}

\* An instance with no status, no status.objects or an empty status.objects.
NoObjects(ti) ==
    ~ti.status.present \/ ~ti.status.hasObjects \/ ti.status.objects = <<>>

\* C15: a listed instance without status.objects (no status, no objects key
\* or an empty list) gets no patch call, is left as listed, raises no error,
\* and alone does not set changed.
C15_NoObjectsSkipped ==
    /\ \A k \in 1..Len(listed) :
          NoObjects(listed[k]) =>
              /\ PatchesOf(listed[k].metadata.name) = {}
              /\ templateinstances[k] = listed[k]
              /\ ~(failure.report # "none" /\ failure.name = listed[k].metadata.name)
    /\ (\A k \in 1..Len(listed) : NoObjects(listed[k])) => ~results.changed

\* C16: at the end of a check-mode invocation, result carries the rewritten
\* body of every listed instance that had a stale reference.
C16_DryRunResultCarriesBodies ==
    (pc = "exited" /\ check_mode) =>
        \A k \in 1..Len(listed) :
            HasStaleRef(listed[k]) =>
                \E r \in 1..Len(results.result.value) :
                    results.result.value[r] = templateinstances[k]

\* The orders a list call could return the sequence s in.
Orderings(s) ==
    { [k \in 1..Len(s) |-> s[f[k]]] :
        f \in { g \in [1..Len(s) -> 1..Len(s)] :
                    \A a, b \in 1..Len(s) : a # b => g[a] # g[b] } }

StartOfRun ==
    [cluster |-> cluster0,
     results |-> [changed |-> FALSE, result |-> EmptyResult],
     crashed |-> FALSE]

\* C17: at the end of an invocation without failure, the persisted cluster
\* and the returned results are what perform_migrations yields for every
\* order of the listed instances.
C17_OrderIndependent ==
    pc = "exited" =>
        \A o \in Orderings(listed) :
            LET r == PerformMigrations(StartOfRun, o, 1, check_mode)
            IN  /\ r.cluster = cluster
                /\ r.results = results

\* C18: when every patch call so far was answered as a cluster that checks
\* the resourceVersion answers (accepted exactly when the body carries the
\* stored resourceVersion, no other failure), no patch call was rejected:
\* every body carried the stored resourceVersion.
C18_NoConflict ==
    (\A p \in 1..Len(patchLog) :
        patchLog[p].ok <=> (patchLog[p].body.metadata.resourceVersion
                              = patchLog[p].stored.metadata.resourceVersion))
    => \A p \in 1..Len(patchLog) : patchLog[p].ok

====
